---------------------------- MODULE Spec2Model ----------------------------
(***************************************************************************)
(* A state-machine model of CameraTrapApp (src/static/js/app.js): the      *)
(* browser-side controller of the camera-trap metadata editor.             *)
(*                                                                         *)
(* The controller is single-threaded and event-driven.  Every action below *)
(* is one task of the JavaScript event loop: a DOM event handler run up to *)
(* its first `await fetch(...)`, or the continuation of an async method    *)
(* that runs when the response to a fetch has arrived.  A request that has *)
(* been issued and not yet answered is an element of the bag `pending`;    *)
(* responses may arrive in any order.  The server is external: its answer  *)
(* to a request is a nondeterministic choice among the shapes section 6 of *)
(* the specification lists (success, success:false, transport exception).  *)
(*                                                                         *)
(* Methods of the class are operators from a state record to a state       *)
(* record, named as in the source, so that a handler that calls other      *)
(* methods is the composition of their operators.  Purely presentational   *)
(* attributes that the code only writes (button captions, CSS classes of   *)
(* the identify button, the pixel geometry of the selection box, the       *)
(* image-info texts) are not part of the state.                            *)
(*                                                                         *)
(* The text of a form input is modelled as a sequence of tokens: a token   *)
(* is a word or one white-space character (" " or "\n"); the empty string  *)
(* is the empty sequence.  Field names and folder paths are atoms.  `null` *)
(* is None and an object o is Some(o).                                     *)
(***************************************************************************)
EXTENDS Integers, Sequences, FiniteSets, Bags, TLC

(***************************************************************************)
(* Bounds of the model.                                                    *)
(***************************************************************************)
\* The largest image count the server reports for a folder.
MaxImages == 2
\* The largest number of requests outstanding at the same time.
MaxInFlight == 2
\* The largest number of entries appended to the debug buffer.
MaxEntries == 3
\* The largest number of fields of the metadata form.
MaxFields == 12
\* The largest number of save requests outstanding at the same time.
MaxSaves == 1
\* The largest number of keys of a metadata mapping given to displayMetadata.
MaxKeys == 2

(***************************************************************************)
(* null / object.                                                          *)
(***************************************************************************)
None == <<>>
Some(v) == <<v>>
Get(o) == o[1]

\* The empty string, and a one-word string.
EmptyStr == <<>>
Word(w) == <<w>>

\* JavaScript truthiness of a string: non-empty.
Truthy(str) == str # EmptyStr

(***************************************************************************)
(* Metadata mappings and the metadata form.                                *)
(*                                                                         *)
(* A metadata mapping (a JavaScript object) is a sequence of entries       *)
(* [name, value] with distinct names, in insertion order.  The form is the *)
(* sequence of field elements of metadataContainer, in document order;     *)
(* each has the name of its input's data-field, the input's value, its     *)
(* readOnly flag and whether it carries a delete button.                   *)
(***************************************************************************)
readonlyFields == {"filename", "size_mb", "dimensions"}

commonFields ==
    << "Species", "Count", "Behavior", "Weather", "Temperature_C",
       "Temperature_F", "Location", "Camera_ID", "Researcher", "Notes" >>

\* String.prototype.toLowerCase on the field names the model uses.
toLowerCase(name) ==
    CASE name = "Filename"      -> "filename"
      [] name = "FILENAME"      -> "filename"
      [] name = "Size_MB"       -> "size_mb"
      [] name = "Dimensions"    -> "dimensions"
      [] name = "Species"       -> "species"
      [] name = "Count"         -> "count"
      [] name = "Behavior"      -> "behavior"
      [] name = "Weather"       -> "weather"
      [] name = "Temperature_C" -> "temperature_c"
      [] name = "Temperature_F" -> "temperature_f"
      [] name = "Location"      -> "location"
      [] name = "Camera_ID"     -> "camera_id"
      [] name = "Researcher"    -> "researcher"
      [] name = "Notes"         -> "notes"
      [] name = "Trail"         -> "trail"
      [] name = "AI_Confidence" -> "ai_confidence"
      [] name = "Scientific_Name" -> "scientific_name"
      [] name = "Habitat"       -> "habitat"
      [] OTHER                  -> name

isCommonField(fieldName) ==
    \E i \in 1..Len(commonFields) : commonFields[i] = fieldName

\* Object.prototype.hasOwnProperty
hasOwnProperty(md, key) == \E i \in 1..Len(md) : md[i].name = key

\* md[key] as far as its truthiness goes: an absent key reads as undefined,
\* which is falsy like the empty string.
Prop(md, key) ==
    IF hasOwnProperty(md, key)
    THEN md[CHOOSE i \in 1..Len(md) : md[i].name = key].value
    ELSE EmptyStr

\* delete md[key]
deleteProperty(md, key) == SelectSeq(md, LAMBDA e : e.name # key)

\* createMetadataField(label, value, readonly = false): appends one field.
createMetadataField(form, label, value, readonly) ==
    Append(form, [ name      |-> label,
                   value     |-> value,
                   readonly  |-> readonly,
                   deletable |-> ~readonly /\ ~isCommonField(label) ])

\* The first loop of displayMetadata: one field per entry of the mapping.
RECURSIVE ExistingFields(_, _)
ExistingFields(form, md) ==
    IF md = <<>> THEN form
    ELSE ExistingFields(
             createMetadataField(form, Head(md).name, Head(md).value,
                                 toLowerCase(Head(md).name) \in readonlyFields),
             Tail(md))

\* The second loop of displayMetadata without its hasOwnProperty test.
RECURSIVE MissingCommonFields_all(_, _, _)
MissingCommonFields_all(form, md, names) ==
    IF names = <<>> THEN form
    ELSE MissingCommonFields_all(
             createMetadataField(form, Head(names), EmptyStr, FALSE), md, Tail(names))

\* The second loop of displayMetadata: an empty field for every common name
\* the mapping does not have.
RECURSIVE MissingCommonFields(_, _, _)
MissingCommonFields(form, md, names) ==
    IF names = <<>> THEN form
    ELSE MissingCommonFields(
             IF hasOwnProperty(md, Head(names)) THEN form
             ELSE createMetadataField(form, Head(names), EmptyStr, FALSE),
             md, Tail(names))

\* The form displayMetadata builds from a mapping.
RenderedForm(md) == MissingCommonFields(ExistingFields(<<>>, md), md, commonFields)

\* metadataContainer.querySelector('[data-field="name"]'): the position of
\* the first field of that name, 0 for null.
querySelector(form, name) ==
    IF \E i \in 1..Len(form) : form[i].name = name
    THEN CHOOSE i \in 1..Len(form) :
             /\ form[i].name = name
             /\ \A j \in 1..(i - 1) : form[j].name # name
    ELSE 0

\* input.value = v on the first field called name, when there is one.
SetValue(form, name, v) ==
    IF querySelector(form, name) = 0 THEN form
    ELSE [form EXCEPT ![querySelector(form, name)].value = v]

(***************************************************************************)
(* The state: the fields of the CameraTrapApp object, the state of the DOM *)
(* elements it reads and writes, and the environment.                      *)
(***************************************************************************)
VARIABLES
    \* fields of the object (constructor, initializeElements)
    currentIndex,            \* this.currentIndex
    totalImages,             \* this.totalImages
    currentMetadata,         \* this.currentMetadata
    isSelecting,             \* this.isSelecting
    selectionStart,          \* this.selectionStart: None or Some([x, y])
    currentSelection,        \* this.currentSelection: None or Some(rectangle)
    currentBrowserPath,      \* this.currentBrowserPath: None or Some(path)
    selectedFolderPath,      \* this.selectedFolderPath: None or Some(path)
    \* DOM
    selectedPath,            \* selectedPath.textContent
    loadFolderBtnDisabled,   \* loadFolderBtn.disabled
    welcomeMessageShown,     \* welcomeMessage without the class 'hidden'
    mainContentShown,        \* mainContent without the class 'hidden'
    imageSrc,                \* currentImage.src: None ('') or Some(index)
    selectionBoxShown,       \* selectionBox.style.display = 'block'
    firstBtnDisabled,        \* firstBtn.disabled
    prevBtnDisabled,         \* prevBtn.disabled
    nextBtnDisabled,         \* nextBtn.disabled
    lastBtnDisabled,         \* lastBtn.disabled
    identifyBtnDisabled,     \* identifyBtn.disabled
    form,                    \* the fields of metadataContainer
    folderBrowserShown,      \* folderBrowserModal without the class 'hidden'
    folderTree,              \* the items of folderTree
    selectFolderBtnDisabled, \* selectFolderBtn.disabled
    addFieldModalShown,      \* addFieldModal without the class 'hidden'
    fieldName,               \* fieldName.value
    fieldValue,              \* fieldValue.value
    debugBuffer,             \* this.debugBuffer (and debugOutput.value)
    \* environment
    pending,                 \* bag of the requests issued and not yet answered
    alerts,                  \* the alerts raised by the last handler, in order
    navigated,               \* the arguments of the navigateToImage calls of the last handler
    logged,                  \* the messages the last handler gave to addDebugOutput
    lastOp,                  \* the handler that ran last
    debugEntries             \* every formatted entry appended to the debug buffer

\* The state the methods work on.
fields ==
    << currentIndex, totalImages, currentMetadata, isSelecting, selectionStart,
       currentSelection, currentBrowserPath, selectedFolderPath, selectedPath,
       loadFolderBtnDisabled, welcomeMessageShown, mainContentShown, imageSrc,
       selectionBoxShown, firstBtnDisabled, prevBtnDisabled, nextBtnDisabled,
       lastBtnDisabled, identifyBtnDisabled, form, folderBrowserShown,
       folderTree, selectFolderBtnDisabled, addFieldModalShown, fieldName,
       fieldValue, debugBuffer, pending, alerts, navigated, logged >>

vars == << fields, lastOp, debugEntries >>

\* The current state as a record: what `this` and the document are to a method.
This ==
    [ currentIndex            |-> currentIndex,
      totalImages             |-> totalImages,
      currentMetadata         |-> currentMetadata,
      isSelecting             |-> isSelecting,
      selectionStart          |-> selectionStart,
      currentSelection        |-> currentSelection,
      currentBrowserPath      |-> currentBrowserPath,
      selectedFolderPath      |-> selectedFolderPath,
      selectedPath            |-> selectedPath,
      loadFolderBtnDisabled   |-> loadFolderBtnDisabled,
      welcomeMessageShown     |-> welcomeMessageShown,
      mainContentShown        |-> mainContentShown,
      imageSrc                |-> imageSrc,
      selectionBoxShown       |-> selectionBoxShown,
      firstBtnDisabled        |-> firstBtnDisabled,
      prevBtnDisabled         |-> prevBtnDisabled,
      nextBtnDisabled         |-> nextBtnDisabled,
      lastBtnDisabled         |-> lastBtnDisabled,
      identifyBtnDisabled     |-> identifyBtnDisabled,
      form                    |-> form,
      folderBrowserShown      |-> folderBrowserShown,
      folderTree              |-> folderTree,
      selectFolderBtnDisabled |-> selectFolderBtnDisabled,
      addFieldModalShown      |-> addFieldModalShown,
      fieldName               |-> fieldName,
      fieldValue              |-> fieldValue,
      debugBuffer             |-> debugBuffer,
      pending                 |-> pending,
      \* a handler starts with no alert raised, no navigation requested and
      \* nothing logged
      alerts                  |-> <<>>,
      navigated               |-> <<>>,
      logged                  |-> <<>> ]

\* The next state is the record s, but for the debug buffer (see Handle).
Becomes(s) ==
    /\ currentIndex'            = s.currentIndex
    /\ totalImages'             = s.totalImages
    /\ currentMetadata'         = s.currentMetadata
    /\ isSelecting'             = s.isSelecting
    /\ selectionStart'          = s.selectionStart
    /\ currentSelection'        = s.currentSelection
    /\ currentBrowserPath'      = s.currentBrowserPath
    /\ selectedFolderPath'      = s.selectedFolderPath
    /\ selectedPath'            = s.selectedPath
    /\ loadFolderBtnDisabled'   = s.loadFolderBtnDisabled
    /\ welcomeMessageShown'     = s.welcomeMessageShown
    /\ mainContentShown'        = s.mainContentShown
    /\ imageSrc'                = s.imageSrc
    /\ selectionBoxShown'       = s.selectionBoxShown
    /\ firstBtnDisabled'        = s.firstBtnDisabled
    /\ prevBtnDisabled'         = s.prevBtnDisabled
    /\ nextBtnDisabled'         = s.nextBtnDisabled
    /\ lastBtnDisabled'         = s.lastBtnDisabled
    /\ identifyBtnDisabled'     = s.identifyBtnDisabled
    /\ form'                    = s.form
    /\ folderBrowserShown'      = s.folderBrowserShown
    /\ folderTree'              = s.folderTree
    /\ selectFolderBtnDisabled' = s.selectFolderBtnDisabled
    /\ addFieldModalShown'      = s.addFieldModalShown
    /\ fieldName'               = s.fieldName
    /\ fieldValue'              = s.fieldValue
    /\ pending'                 = s.pending
    /\ alerts'                  = s.alerts
    /\ navigated'               = s.navigated
    /\ logged'                  = s.logged

\* The state is the record s.
Is(s) ==
    /\ currentIndex             = s.currentIndex
    /\ totalImages              = s.totalImages
    /\ currentMetadata          = s.currentMetadata
    /\ isSelecting              = s.isSelecting
    /\ selectionStart           = s.selectionStart
    /\ currentSelection         = s.currentSelection
    /\ currentBrowserPath       = s.currentBrowserPath
    /\ selectedFolderPath       = s.selectedFolderPath
    /\ selectedPath             = s.selectedPath
    /\ loadFolderBtnDisabled    = s.loadFolderBtnDisabled
    /\ welcomeMessageShown      = s.welcomeMessageShown
    /\ mainContentShown         = s.mainContentShown
    /\ imageSrc                 = s.imageSrc
    /\ selectionBoxShown        = s.selectionBoxShown
    /\ firstBtnDisabled         = s.firstBtnDisabled
    /\ prevBtnDisabled          = s.prevBtnDisabled
    /\ nextBtnDisabled          = s.nextBtnDisabled
    /\ lastBtnDisabled          = s.lastBtnDisabled
    /\ identifyBtnDisabled      = s.identifyBtnDisabled
    /\ form                     = s.form
    /\ folderBrowserShown       = s.folderBrowserShown
    /\ folderTree               = s.folderTree
    /\ selectFolderBtnDisabled  = s.selectFolderBtnDisabled
    /\ addFieldModalShown       = s.addFieldModalShown
    /\ fieldName                = s.fieldName
    /\ fieldValue               = s.fieldValue
    /\ debugBuffer              = s.debugBuffer
    /\ pending                  = s.pending
    /\ alerts                   = s.alerts
    /\ navigated                = s.navigated
    /\ logged                   = s.logged

(***************************************************************************)
(* The environment: alert(), fetch() and the requests.                     *)
(***************************************************************************)
\* window.alert(message): the model records which alert it is.
alert(s, message) == [s EXCEPT !.alerts = Append(@, message)]

\* A request: the endpoint and what the URL or the body carries.
Request(api, body) == [api |-> api, body |-> body]

\* fetch(...): the request is outstanding until its answer is handled.
fetch(s, request) == [s EXCEPT !.pending = @ (+) SetToBag({request})]

\* The answer to an outstanding request has arrived.
Answered(s, request) == [s EXCEPT !.pending = @ (-) SetToBag({request})]

\* The outstanding requests to one endpoint.
Outstanding(api) == {r \in BagToSet(pending) : r.api = api}

\* A response: how the request ended ("success": JSON with success true,
\* or for /api/image JSON without an error; "failure": JSON reporting an
\* error; "exception": fetch or response.json() threw) and the JSON's data.
Response(outcome, payload) == [outcome |-> outcome, payload |-> payload]

(***************************************************************************)
(* The debug log (app.js 455-473).  A message is a string: a sequence of   *)
(* characters; the messages of the handlers are one token each.            *)
(***************************************************************************)
\* The number of characters the debug buffer keeps.
DebugLimit == 500

\* new Date().toLocaleTimeString(): the clock is not modelled, every entry
\* carries the same time of day.
toLocaleTimeString == << "1", "2", ":", "0", "0", ":", "0", "0" >>

\* `[${timestamp}] ${message}\n`
formattedMessage(message) ==
    << "[" >> \o toLocaleTimeString \o << "]", " " >> \o message \o << "\n" >>

\* str.slice(-n): the last n characters of str, all of it when it is shorter.
sliceLast(str, n) ==
    IF Len(str) > n THEN SubSeq(str, Len(str) - n + 1, Len(str)) ELSE str

\* addDebugOutput that keeps the first DebugLimit characters.
addDebugOutput_keepsOldest(s, message) ==
    LET appended == s.debugBuffer \o formattedMessage(message)
    IN  [s EXCEPT !.debugBuffer = IF Len(appended) > DebugLimit
                                  THEN SubSeq(appended, 1, DebugLimit)
                                  ELSE appended,
                  !.logged = Append(@, message)]

addDebugOutput(s, message) ==
    LET appended == s.debugBuffer \o formattedMessage(message)
    IN  [s EXCEPT !.debugBuffer = IF Len(appended) > DebugLimit
                                  THEN sliceLast(appended, DebugLimit)
                                  ELSE appended,
                  !.logged = Append(@, message)]

(***************************************************************************)
(* Folder browser (app.js 145-246).                                        *)
(***************************************************************************)
\* hideFolderBrowser that hides the modal and nothing else.
hideFolderBrowser_keepsSelection(s) == [s EXCEPT !.folderBrowserShown = FALSE]

hideFolderBrowser(s) ==
    [s EXCEPT !.folderBrowserShown = FALSE,
              !.selectedFolderPath = None,
              !.selectFolderBtnDisabled = TRUE]

\* browseTo(path) up to its await: the listing of path (None: the server's
\* default root) is requested.
browseTo(s, path) == fetch(s, Request("browse_folders", path))

showFolderBrowser(s) == browseTo([s EXCEPT !.folderBrowserShown = TRUE], None)

\* displayFolderTree(items): the tree is emptied and rebuilt, no item selected.
displayFolderTree(s, items) ==
    [s EXCEPT !.folderTree =
        [i \in 1..Len(items) |->
            [ path     |-> items[i].path,
              type     |-> items[i].type,
              is_dir   |-> items[i].is_dir,
              selected |-> FALSE ]]]

\* browseTo after its awaits.
browseToResponse(s, result) ==
    CASE result.outcome = "success" ->
            displayFolderTree(
                [s EXCEPT !.currentBrowserPath = Some(result.payload.current_path)],
                result.payload.items)
      [] result.outcome = "failure" -> alert(s, "Error browsing folders")
      [] OTHER -> alert(s, "Error")

\* selectFolder(itemDiv, path), itemDiv the i-th item of the tree.
selectFolder(s, i, path) ==
    [s EXCEPT !.folderTree =
                  [j \in 1..Len(s.folderTree) |->
                      [s.folderTree[j] EXCEPT !.selected = (j = i)]],
              !.selectedFolderPath = Some(path),
              !.selectFolderBtnDisabled = FALSE]

selectCurrentFolder(s) ==
    IF s.selectedFolderPath # None /\ Get(s.selectedFolderPath) # ""
    THEN hideFolderBrowser(
             [s EXCEPT !.selectedPath = Get(s.selectedFolderPath),
                       !.loadFolderBtnDisabled = FALSE])
    ELSE s

(***************************************************************************)
(* Image navigator (app.js 248-374).                                       *)
(***************************************************************************)
updateNavigationButtons(s) ==
    [s EXCEPT !.firstBtnDisabled = (s.currentIndex = 0),
              !.prevBtnDisabled  = (s.currentIndex = 0),
              !.nextBtnDisabled  = (s.currentIndex = s.totalImages - 1),
              !.lastBtnDisabled  = (s.currentIndex = s.totalImages - 1)]

cancelIdentifyMode(s) ==
    updateNavigationButtons(
        [s EXCEPT !.isSelecting = FALSE,
                  !.selectionBoxShown = FALSE,
                  !.currentSelection = None])

resetInterface(s) ==
    LET cleared   == [s EXCEPT !.imageSrc = None, !.form = <<>>]
        cancelled == cancelIdentifyMode(cleared)
    IN  [cancelled EXCEPT !.currentIndex = 0,
                          !.totalImages = 0,
                          !.currentMetadata = <<>>,
                          !.firstBtnDisabled = TRUE,
                          !.prevBtnDisabled = TRUE,
                          !.nextBtnDisabled = TRUE,
                          !.lastBtnDisabled = TRUE]

\* showMainContent that leaves the views as they are.
showMainContent_nothing(s) == s

showMainContent(s) ==
    [s EXCEPT !.welcomeMessageShown = FALSE, !.mainContentShown = TRUE]

\* loadCurrentImage up to its await: the image at currentIndex is requested.
loadCurrentImage(s) == fetch(s, Request("image", s.currentIndex))

\* loadFolder without its call of resetInterface.
loadFolder_noReset(s) ==
    IF s.selectedPath = "" \/ s.selectedPath = "No folder selected"
    THEN alert(s, "Please select a folder first")
    ELSE fetch(s, Request("load_folder", s.selectedPath))

\* loadFolder up to its await.
loadFolder(s) ==
    IF s.selectedPath = "" \/ s.selectedPath = "No folder selected"
    THEN alert(s, "Please select a folder first")
    ELSE fetch(resetInterface(s), Request("load_folder", s.selectedPath))

\* loadFolder's continuation without `this.currentIndex = 0`.
loadFolderResponse_keepsIndex(s, result) ==
    CASE result.outcome = "success" ->
            LET loaded == [s EXCEPT !.totalImages = result.payload.count,
                                    !.currentMetadata = <<>>]
            IN  IF loaded.totalImages > 0
                THEN fetch(showMainContent(loaded), Request("image", loaded.currentIndex))
                ELSE alert(loaded, "No supported image files found")
      [] result.outcome = "failure" -> alert(s, "Error loading folder")
      [] OTHER -> alert(s, "Error")

\* loadFolder after its awaits, up to the await inside loadCurrentImage.
loadFolderResponse(s, result) ==
    CASE result.outcome = "success" ->
            LET loaded == [s EXCEPT !.totalImages = result.payload.count,
                                    !.currentIndex = 0,
                                    !.currentMetadata = <<>>]
            IN  IF loaded.totalImages > 0
                THEN loadCurrentImage(showMainContent(loaded))
                ELSE alert(loaded, "No supported image files found")
      [] result.outcome = "failure" -> alert(s, "Error loading folder")
      [] OTHER -> alert(s, "Error")

\* navigateToImage without its range check.
navigateToImage_unchecked(s, index) ==
    fetch([s EXCEPT !.navigated = Append(@, index), !.currentIndex = index],
          Request("image", index))

navigateToImage(s, index) ==
    LET called == [s EXCEPT !.navigated = Append(@, index)]
    IN  IF index < 0 \/ index >= s.totalImages
        THEN called
        ELSE loadCurrentImage([called EXCEPT !.currentIndex = index])

displayMetadata(s) == [s EXCEPT !.form = RenderedForm(s.currentMetadata)]

\* extractFooterDataSilent up to its await.
extractFooterDataSilent(s) ==
    IF s.totalImages = 0 THEN s
    ELSE fetch(addDebugOutput(s, Word("Extracting footer metadata...")),
               Request("extract_footer", s.currentIndex))

\* loadCurrentImage after its awaits, up to the await inside
\* extractFooterDataSilent.
\* The condition tested on the keys of the mapping, not on their values.
MissingFooterFields_absentKeys(md) ==
    \/ ~hasOwnProperty(md, "Temperature_C")
    \/ ~hasOwnProperty(md, "Temperature_F")
    \/ ~hasOwnProperty(md, "Camera_ID")

\* !hasTemperatureC || !hasTemperatureF || !hasCameraID
MissingFooterFields(md) ==
    \/ ~Truthy(Prop(md, "Temperature_C"))
    \/ ~Truthy(Prop(md, "Temperature_F"))
    \/ ~Truthy(Prop(md, "Camera_ID"))

loadCurrentImageResponse(s, imageData) ==
    CASE imageData.outcome = "success" ->
            LET shown    == [s EXCEPT !.imageSrc = Some(s.currentIndex)]
                buttons  == updateNavigationButtons(shown)
                rendered == displayMetadata(
                                [buttons EXCEPT !.currentMetadata = imageData.payload.metadata])
                md       == rendered.currentMetadata
            IN  IF MissingFooterFields(md)
                THEN extractFooterDataSilent(
                         addDebugOutput(
                             addDebugOutput(rendered, Word("Loading image")),
                             Word("Missing metadata - extracting footer data...")))
                ELSE addDebugOutput(rendered, Word("Image loaded - metadata complete"))
      [] imageData.outcome = "failure" -> alert(s, "Error loading image")
      [] OTHER -> alert(addDebugOutput(s, Word("Error loading image")),
                        "Error loading image")

\* The block left out: the result is not written to the form.
FooterField_ignored(s, footerData, name) == s

\* The block of a workflow that is not silent: the value is stored in
\* currentMetadata as well, and an alert reports it.
FooterField_reporting(s, footerData, name) ==
    IF Truthy(Prop(footerData, name))
    THEN alert([s EXCEPT !.form = SetValue(@, name, Prop(footerData, name)),
                         !.currentMetadata =
                             Append(@, [name |-> name, value |-> Prop(footerData, name)])],
               "Footer data extracted")
    ELSE s

\* One of the three `if (footerData.X)` blocks of extractFooterDataSilent.
FooterField(s, footerData, name) ==
    IF Truthy(Prop(footerData, name))
    THEN [s EXCEPT !.form = SetValue(@, name, Prop(footerData, name))]
    ELSE s

\* updatedFields.length > 0: one of the three blocks found its input.
FooterUpdated(s, footerData) ==
    \E name \in {"Temperature_C", "Temperature_F", "Camera_ID"} :
        Truthy(Prop(footerData, name)) /\ querySelector(s.form, name) # 0

\* extractFooterDataSilent after its awaits: every outcome writes to the
\* debug output, a success with data also to the form.
extractFooterDataSilentResponse(s, result) ==
    CASE result.outcome = "success" ->
            LET footerData == result.payload.footer_metadata
                written  == FooterField(
                                FooterField(
                                    FooterField(s, footerData, "Temperature_C"),
                                    footerData, "Temperature_F"),
                                footerData, "Camera_ID")
                dated    == IF Truthy(Prop(footerData, "DateTime"))
                            THEN addDebugOutput(written, Word("DateTime"))
                            ELSE written
            IN  IF Len(footerData) > 0
                THEN IF FooterUpdated(s, footerData)
                     THEN addDebugOutput(dated, Word("Extracted"))
                     ELSE addDebugOutput(dated,
                              Word("Footer data extracted but no matching fields found"))
                ELSE addDebugOutput(s, Word("No footer data could be extracted"))
      [] result.outcome = "failure" ->
            addDebugOutput(s, Word("Footer extraction failed"))
      [] OTHER -> addDebugOutput(s, Word("Error extracting footer data"))

(***************************************************************************)
(* Region selector and species identification (app.js 606-795).            *)
(***************************************************************************)
\* The minimum width and height, in display pixels, of an accepted drag.
MinSelectionSize == 20

Abs(n) == IF n < 0 THEN -n ELSE n
Min(a, b) == IF a < b THEN a ELSE b
Max(a, b) == IF a > b THEN a ELSE b

WhiteSpace == {" ", "\n", "\t"}

\* String.prototype.trim
RECURSIVE trimStart(_)
trimStart(str) ==
    IF str # <<>> /\ Head(str) \in WhiteSpace THEN trimStart(Tail(str)) ELSE str

RECURSIVE trimEnd(_)
trimEnd(str) ==
    IF str # <<>> /\ str[Len(str)] \in WhiteSpace
    THEN trimEnd(SubSeq(str, 1, Len(str) - 1))
    ELSE str

trim(str) == trimEnd(trimStart(str))

startIdentifyMode(s) ==
    [s EXCEPT !.isSelecting = TRUE,
              !.firstBtnDisabled = TRUE,
              !.prevBtnDisabled = TRUE,
              !.nextBtnDisabled = TRUE,
              !.lastBtnDisabled = TRUE]

\* toggleIdentifyMode that leaves the mode by clearing the flag alone.
toggleIdentifyMode_clearsFlag(s) ==
    IF s.isSelecting THEN [s EXCEPT !.isSelecting = FALSE] ELSE startIdentifyMode(s)

toggleIdentifyMode(s) ==
    IF s.isSelecting THEN cancelIdentifyMode(s) ELSE startIdentifyMode(s)

\* startSelection(e): e.x, e.y are the pointer's position relative to the
\* image wrapper (e.clientX - wrapperRect.left, e.clientY - wrapperRect.top).
startSelection(s, e) ==
    IF ~s.isSelecting THEN s
    ELSE [s EXCEPT !.selectionStart = Some([x |-> e.x, y |-> e.y]),
                   !.selectionBoxShown = TRUE]

\* updateSelection(e) only restyles the selection box.
updateSelection(s, e) == s

\* identifySpecies up to its await.
identifySpecies(s) ==
    IF s.currentSelection = None THEN s
    ELSE fetch([s EXCEPT !.identifyBtnDisabled = TRUE],
               Request("identify_species",
                       [ image_index |-> s.currentIndex,
                         selection   |-> Get(s.currentSelection) ]))

\* endSelection that accepts a drag only when it is larger than the minimum.
endSelection_exclusive(s, e, img) ==
    IF ~s.isSelecting \/ s.selectionStart = None THEN s
    ELSE LET start           == Get(s.selectionStart)
             selectionWidth  == Abs(e.x - start.x)
             selectionHeight == Abs(e.y - start.y)
             selectionLeft   == Min(start.x, e.x) - img.imageLeft
             selectionTop    == Min(start.y, e.y) - img.imageTop
         IN  IF selectionWidth <= MinSelectionSize \/ selectionHeight <= MinSelectionSize
             THEN cancelIdentifyMode(s)
             ELSE identifySpecies(
                      [s EXCEPT !.currentSelection =
                          Some([ x      |-> Max(0, selectionLeft * img.scaleX),
                                 y      |-> Max(0, selectionTop * img.scaleY),
                                 width  |-> selectionWidth * img.scaleX,
                                 height |-> selectionHeight * img.scaleY ])])

\* endSelection(e) up to the await inside identifySpecies.  img is what the
\* handler reads from the image element: its offset inside the wrapper and
\* the ratios naturalWidth / clientWidth and naturalHeight / clientHeight.
endSelection(s, e, img) ==
    IF ~s.isSelecting \/ s.selectionStart = None THEN s
    ELSE LET start           == Get(s.selectionStart)
             selectionWidth  == Abs(e.x - start.x)
             selectionHeight == Abs(e.y - start.y)
             selectionLeft   == Min(start.x, e.x) - img.imageLeft
             selectionTop    == Min(start.y, e.y) - img.imageTop
         IN  IF selectionWidth < MinSelectionSize \/ selectionHeight < MinSelectionSize
             THEN cancelIdentifyMode(s)
             ELSE identifySpecies(
                      [s EXCEPT !.currentSelection =
                          Some([ x      |-> Max(0, selectionLeft * img.scaleX),
                                 y      |-> Max(0, selectionTop * img.scaleY),
                                 width  |-> selectionWidth * img.scaleX,
                                 height |-> selectionHeight * img.scaleY ])])

handleIdentificationResult(s, identification) ==
    LET f0 == s.form
        f1 == IF /\ querySelector(f0, "Species") # 0
                 /\ Truthy(identification.species)
                 /\ identification.species # Word("Unknown")
              THEN SetValue(f0, "Species", identification.species)
              ELSE f0
        f2 == IF querySelector(f1, "Count") # 0 /\ identification.count > 0
              THEN SetValue(f1, "Count", Word(ToString(identification.count)))
              ELSE f1
        f3 == IF Truthy(identification.confidence)
              THEN createMetadataField(f2, "AI_Confidence", identification.confidence, FALSE)
              ELSE f2
        f4 == IF Truthy(identification.scientific_name)
              THEN createMetadataField(f3, "Scientific_Name", identification.scientific_name, FALSE)
              ELSE f3
        f5 == IF Truthy(identification.habitat)
              THEN createMetadataField(f4, "Habitat", identification.habitat, FALSE)
              ELSE f4
        existingNotes == trim(f5[querySelector(f5, "Notes")].value)
        aiNote == <<"AI (Namibia):", " ">> \o identification.description
        f6 == IF Truthy(identification.description) /\ querySelector(f5, "Notes") # 0
              THEN SetValue(f5, "Notes",
                            IF Truthy(existingNotes)
                            THEN existingNotes \o <<"\n">> \o aiNote
                            ELSE aiNote)
              ELSE f5
    IN  alert([s EXCEPT !.form = f6], "Species identification complete!")

\* identifySpecies' continuation with the body of `finally` at the end of `try`.
identifySpeciesResponse_noFinally(s, result) ==
    CASE result.outcome = "success" ->
            cancelIdentifyMode(
                [handleIdentificationResult(s, result.payload.identification)
                    EXCEPT !.identifyBtnDisabled = FALSE])
      [] result.outcome = "failure" ->
            cancelIdentifyMode(
                [alert(s, "Identification failed") EXCEPT !.identifyBtnDisabled = FALSE])
      [] OTHER -> alert(s, "Error during identification")

\* identifySpecies after its awaits: try, catch and finally.
identifySpeciesResponse(s, result) ==
    LET handled ==
            CASE result.outcome = "success" ->
                    handleIdentificationResult(s, result.payload.identification)
              [] result.outcome = "failure" -> alert(s, "Identification failed")
              [] OTHER -> alert(s, "Error during identification")
    IN  cancelIdentifyMode([handled EXCEPT !.identifyBtnDisabled = FALSE])

(***************************************************************************)
(* The metadata editor (app.js 402-541).                                   *)
(***************************************************************************)
showAddFieldModal(s) ==
    [s EXCEPT !.fieldName = EmptyStr,
              !.fieldValue = EmptyStr,
              !.addFieldModalShown = TRUE]

hideAddFieldModal(s) == [s EXCEPT !.addFieldModalShown = FALSE]

\* The field name a one-word string spells.
AsName(str) == str[1]

addCustomField(s) ==
    LET name  == trim(s.fieldName)
        value == trim(s.fieldValue)
    IN  IF ~Truthy(name) THEN alert(s, "Please enter a field name")
        ELSE IF hasOwnProperty(s.currentMetadata, AsName(name))
        THEN alert(s, "A field with this name already exists")
        ELSE hideAddFieldModal(
                 [s EXCEPT !.form = createMetadataField(@, AsName(name), value, FALSE)])

\* The click handler of the delete button of the i-th field of the form.
deleteField(s, i) ==
    [s EXCEPT !.form = SubSeq(@, 1, i - 1) \o SubSeq(@, i + 1, Len(@)),
              !.currentMetadata = deleteProperty(@, s.form[i].name)]

\* metadata[key] = value
setProperty(md, key, value) ==
    IF hasOwnProperty(md, key)
    THEN [i \in 1..Len(md) |-> IF md[i].name = key THEN [md[i] EXCEPT !.value = value]
                                                   ELSE md[i]]
    ELSE Append(md, [name |-> key, value |-> value])

\* The loop of saveMetadata over the inputs that are not readonly.
RECURSIVE CollectInputs(_, _)
CollectInputs(metadata, inputs) ==
    IF inputs = <<>> THEN metadata
    ELSE LET input == Head(inputs)
             value == trim(input.value)
         IN  CollectInputs(
                 IF ~input.readonly /\ Truthy(value)
                 THEN setProperty(metadata, input.name, value)
                 ELSE metadata,
                 Tail(inputs))

\* saveMetadata up to its await.
saveMetadata(s) ==
    fetch(s, Request("save_metadata",
                     [ index    |-> s.currentIndex,
                       metadata |-> CollectInputs(<<>>, s.form) ]))

\* saveMetadata after its awaits.
saveMetadataResponse(s, result) ==
    CASE result.outcome = "success" -> s
      [] result.outcome = "failure" -> alert(s, "Failed to save metadata")
      [] OTHER -> alert(s, "Error saving metadata")

\* The keydown handler without `|| this.isSelecting` in its first line.
keydown_whileSelecting(s, key) ==
    IF s.totalImages = 0 THEN s
    ELSE CASE key = "ArrowLeft"  -> navigateToImage(s, s.currentIndex - 1)
           [] key = "ArrowRight" -> navigateToImage(s, s.currentIndex + 1)
           [] key = "Home"       -> navigateToImage(s, 0)
           [] key = "End"        -> navigateToImage(s, s.totalImages - 1)
           [] key = "Escape"     -> IF s.isSelecting THEN cancelIdentifyMode(s) ELSE s
           [] OTHER              -> s

\* The keydown handler of the document (bindEvents).
keydown(s, key) ==
    IF s.totalImages = 0 \/ s.isSelecting THEN s
    ELSE CASE key = "ArrowLeft"  -> navigateToImage(s, s.currentIndex - 1)
           [] key = "ArrowRight" -> navigateToImage(s, s.currentIndex + 1)
           [] key = "Home"       -> navigateToImage(s, 0)
           [] key = "End"        -> navigateToImage(s, s.totalImages - 1)
           [] key = "Escape"     -> IF s.isSelecting THEN cancelIdentifyMode(s) ELSE s
           [] OTHER              -> s

\* The click handler of a directory item of the folder tree.
folderItemClick(s, i) ==
    IF s.folderTree[i].type = "parent"
    THEN browseTo(s, Some(s.folderTree[i].path))
    ELSE selectFolder(s, i, s.folderTree[i].path)

\* The dblclick handler of a directory item of the folder tree.
folderItemDblClick(s, i) == browseTo(s, Some(s.folderTree[i].path))

(***************************************************************************)
(* The server, as far as the client sees it (specification, section 6).    *)
(* The inputs of the model: what the server answers and where the pointer  *)
(* is.                                                                     *)
(***************************************************************************)
\* The directory tree the server exposes: the root / holds the folder /a
\* and a file; /a holds nothing but the link to its parent.
ServerListing(path) ==
    IF path = Some("/a")
    THEN [ current_path |-> "/a",
           items |-> << [path |-> "/", type |-> "parent", is_dir |-> TRUE] >> ]
    ELSE [ current_path |-> "/",
           items |-> << [path |-> "/a", type |-> "dir", is_dir |-> TRUE],
                        [path |-> "/x.jpg", type |-> "file", is_dir |-> FALSE] >> ]

Failure == Response("failure", <<>>)
Exception == Response("exception", <<>>)

BrowseResults(path) == {Response("success", ServerListing(path)), Failure, Exception}

LoadFolderResults ==
    {Response("success", [count |-> n]) : n \in 0..MaxImages} \cup {Failure, Exception}

\* Metadata of an image that lacks the footer fields, and of one that has them.
MetaKudu ==
    << [name |-> "filename", value |-> Word("IMG_0001.JPG")],
       [name |-> "Species", value |-> Word("Kudu")] >>
MetaComplete ==
    << [name |-> "Temperature_C", value |-> Word("21")],
       [name |-> "Temperature_F", value |-> Word("70")],
       [name |-> "Camera_ID", value |-> Word("CAM1")] >>

\* The images of the folder the server has loaded: the first lacks the
\* footer fields, the others have them.
ServerMetadata(index) == IF index = 0 THEN MetaKudu ELSE MetaComplete

\* Metadata in which each of the three keys the footer supplies is absent,
\* present with an empty value, or present with a value.
FooterKeyEntry(name) ==
    { <<>>, << [name |-> name, value |-> EmptyStr] >>,
      << [name |-> name, value |-> Word("21")] >> }
FooterKeyMetadata ==
    { c \o f \o id : c \in FooterKeyEntry("Temperature_C"),
                     f \in FooterKeyEntry("Temperature_F"),
                     id \in FooterKeyEntry("Camera_ID") }

ImageResults(metadata) == {Response("success", [metadata |-> metadata]), Failure, Exception}

\* A footer in which nothing could be read, and one with a temperature.
FooterNothing == <<>>
FooterTemperature ==
    << [name |-> "Temperature_C", value |-> Word("25")],
       [name |-> "DateTime", value |-> Word("2025-01-01")] >>

FooterResults(footers) ==
    {Response("success", [footer_metadata |-> f]) : f \in footers}
        \cup {Failure, Exception}

\* An identification that recognises nothing, and one that recognises two oryx.
IdUnknown ==
    [ species |-> Word("Unknown"), count |-> 0, confidence |-> EmptyStr,
      scientific_name |-> EmptyStr, habitat |-> EmptyStr, description |-> EmptyStr ]
IdOryx ==
    [ species |-> Word("Oryx"), count |-> 2, confidence |-> Word("high"),
      scientific_name |-> EmptyStr, habitat |-> EmptyStr,
      description |-> Word("grazing") ]

IdentifyResults(identifications) ==
    {Response("success", [identification |-> id]) : id \in identifications}
        \cup {Failure, Exception}

\* Pointer positions relative to the image wrapper, in display pixels: where
\* a drag starts, and where it ends (on the anchor; 20 by 20 up and left of
\* it; one pixel short in width, in height; 30 by 40 down and right of it).
Point(x, y) == [x |-> x, y |-> y]
DownPoints == {Point(30, 30)}
UpPoints ==
    {Point(30, 30), Point(10, 10), Point(11, 10), Point(10, 11), Point(60, 70)}

\* What endSelection reads from the image element: the image is shown at
\* half its natural width and a third of its natural height, 20 by 5 pixels
\* inside the wrapper.
Images == {[imageLeft |-> 20, imageTop |-> 5, scaleX |-> 2, scaleY |-> 3]}

Keys == {"ArrowLeft", "ArrowRight", "Home", "End", "Escape"}

\* What the user types into the add-field dialog as a name: blanks, a new
\* name between blanks, the names of two common fields, a name of the
\* denylist with a capital.
FieldNameTexts ==
    { << " " >>, << " ", "Trail", " " >>, Word("Species"), Word("Count"), Word("Filename") }

\* What the user types as a value: nothing, or a word between blanks.
FieldValueTexts == { EmptyStr, << " ", "north", " " >> }

\* The inputs of the form the user types into.
TypedFields == {"Species"}

SaveResults == {Response("success", <<>>), Failure, Exception}

(***************************************************************************)
(* The initial state: the constructor has run on the page as served.  The  *)
(* page's markup is not part of the sources; the welcome view is shown,    *)
(* the main content and the folder browser are hidden, no folder is        *)
(* selected.  Whether the markup disables the load button is left open:    *)
(* loadFolder itself handles a call with no folder selected.               *)
(***************************************************************************)
Constructed(loadDisabled) ==
    [ currentIndex            |-> 0,
      totalImages             |-> 0,
      currentMetadata         |-> <<>>,
      isSelecting             |-> FALSE,
      selectionStart          |-> None,
      currentSelection        |-> None,
      currentBrowserPath      |-> None,
      selectedFolderPath      |-> None,
      selectedPath            |-> "No folder selected",
      loadFolderBtnDisabled   |-> loadDisabled,
      welcomeMessageShown     |-> TRUE,
      mainContentShown        |-> FALSE,
      imageSrc                |-> None,
      selectionBoxShown       |-> FALSE,
      firstBtnDisabled        |-> TRUE,
      prevBtnDisabled         |-> TRUE,
      nextBtnDisabled         |-> TRUE,
      lastBtnDisabled         |-> TRUE,
      identifyBtnDisabled     |-> FALSE,
      form                    |-> <<>>,
      folderBrowserShown      |-> FALSE,
      folderTree              |-> <<>>,
      selectFolderBtnDisabled |-> TRUE,
      addFieldModalShown      |-> FALSE,
      fieldName               |-> EmptyStr,
      fieldValue              |-> EmptyStr,
      debugBuffer             |-> EmptyStr,
      pending                 |-> EmptyBag,
      alerts                  |-> <<>>,
      navigated               |-> <<>>,
      logged                  |-> <<>> ]

Init ==
    /\ \E loadDisabled \in BOOLEAN : Is(Constructed(loadDisabled))
    /\ lastOp = "constructor"
    /\ debugEntries = <<>>

(***************************************************************************)
(* The actions: one per event handler and one per continuation.            *)
(***************************************************************************)
\* The handler op has run and left the state s.  A handler that would raise
\* the number of outstanding requests above MaxInFlight, or the number of
\* fields of the form above MaxFields, is not explored.
\* The debug buffer, which only addDebugOutput reads, is left out of the
\* steps of the handlers: what a handler appends to it is in `logged`, and
\* the buffer under the appends is the subject of DebugSpec.
Handle(op, s) ==
    /\ lastOp' = op
    /\ UNCHANGED << debugBuffer, debugEntries >>
    /\ \E after \in {s} :
        /\ \/ BagCardinality(after.pending) <= MaxInFlight
           \/ BagCardinality(after.pending) <= BagCardinality(pending)
        /\ Len(after.form) <= MaxFields
        /\ Becomes(after)

\* What a handler starts on, as sets to bind `this` from: the object when an
\* event is dispatched, and the object when the answer to a request is in.
Dispatched == {This}
Resumed(request) == {Answered(This, request)}

\* The controls of the page outside the main content can be clicked while
\* no modal overlay (the folder browser, the add-field dialog) covers them;
\* those inside the main content once it is shown as well.
PageUsable == ~folderBrowserShown /\ ~addFieldModalShown
MainUsable == mainContentShown /\ PageUsable

ClickBrowseFolders ==
    /\ PageUsable
    /\ \E this \in Dispatched :
           Handle("showFolderBrowser", showFolderBrowser(this))

BrowseResponse ==
    \E request \in Outstanding("browse_folders") :
        \E result \in BrowseResults(request.body) :
            \E this \in Resumed(request) :
                Handle("browseToResponse", browseToResponse(this, result))

ClickFolderItem ==
    /\ folderBrowserShown
    /\ \E i \in 1..Len(folderTree) :
        /\ folderTree[i].is_dir
        /\ \E this \in Dispatched :
               Handle("folderItemClick", folderItemClick(this, i))

\* A double click is two clicks and a dblclick on the same item.
DblClickFolderItem ==
    /\ folderBrowserShown
    /\ \E i \in 1..Len(folderTree) :
        /\ folderTree[i].is_dir
        /\ \E this \in Dispatched :
               Handle("folderItemDblClick",
                      folderItemDblClick(folderItemClick(folderItemClick(this, i), i), i))

ClickSelectFolder ==
    /\ folderBrowserShown
    /\ ~selectFolderBtnDisabled
    /\ \E this \in Dispatched :
           Handle("selectCurrentFolder", selectCurrentFolder(this))

ClickCancelBrowser ==
    /\ folderBrowserShown
    /\ \E this \in Dispatched :
           Handle("hideFolderBrowser", hideFolderBrowser(this))

ClickOutsideBrowser ==
    /\ folderBrowserShown
    /\ \E this \in Dispatched :
           Handle("hideFolderBrowser", hideFolderBrowser(this))

ClickLoadFolder ==
    /\ PageUsable
    /\ ~loadFolderBtnDisabled
    /\ \E this \in Dispatched :
           Handle("loadFolder", loadFolder(this))

\* The server's answer result to the load_folder request is handled.
LoadFolderAnswer(request, result) ==
    \E this \in Resumed(request) :
        Handle("loadFolderResponse", loadFolderResponse(this, result))

LoadFolderResponse ==
    \E request \in Outstanding("load_folder") :
        \E result \in LoadFolderResults : LoadFolderAnswer(request, result)

ClickFirst ==
    /\ MainUsable
    /\ ~firstBtnDisabled
    /\ \E this \in Dispatched :
           Handle("firstBtn", navigateToImage(this, 0))

ClickPrev ==
    /\ MainUsable
    /\ ~prevBtnDisabled
    /\ \E this \in Dispatched :
           Handle("prevBtn", navigateToImage(this, this.currentIndex - 1))

ClickNext ==
    /\ MainUsable
    /\ ~nextBtnDisabled
    /\ \E this \in Dispatched :
           Handle("nextBtn", navigateToImage(this, this.currentIndex + 1))

ClickLast ==
    /\ MainUsable
    /\ ~lastBtnDisabled
    /\ \E this \in Dispatched :
           Handle("lastBtn", navigateToImage(this, this.totalImages - 1))

\* Key presses reach the document whatever is shown.
KeyPress(key) ==
    \E this \in Dispatched : Handle("keydown", keydown(this, key))

KeyDown == \E key \in Keys : KeyPress(key)

\* The server's answer imageData to the image request is handled.
ImageAnswer(request, imageData) ==
    \E this \in Resumed(request) :
        Handle("loadCurrentImageResponse", loadCurrentImageResponse(this, imageData))

ImageResponse ==
    \E request \in Outstanding("image") :
        \E imageData \in ImageResults(ServerMetadata(request.body)) :
            ImageAnswer(request, imageData)

\* The image request is answered with any metadata of FooterKeyMetadata.
AnyImageResponse ==
    \E request \in Outstanding("image") :
        \E md \in FooterKeyMetadata :
            \E imageData \in ImageResults(md) : ImageAnswer(request, imageData)

\* The server's answer result to the footer request is handled.
FooterAnswer(request, result) ==
    \E this \in Resumed(request) :
        Handle("extractFooterDataSilentResponse",
               extractFooterDataSilentResponse(this, result))

FooterResponse(footers) ==
    \E request \in Outstanding("extract_footer") :
        \E result \in FooterResults(footers) : FooterAnswer(request, result)

ClickIdentify ==
    /\ MainUsable
    /\ ~identifyBtnDisabled
    /\ \E this \in Dispatched :
           Handle("toggleIdentifyMode", toggleIdentifyMode(this))

\* The cancel control is part of the selection info, shown while selecting.
ClickCancelSelection ==
    /\ MainUsable
    /\ isSelecting
    /\ \E this \in Dispatched :
           Handle("cancelIdentifyMode", cancelIdentifyMode(this))

\* The pointer handlers return at once unless a selection is under way.
MouseDown ==
    /\ MainUsable
    /\ isSelecting
    /\ \E e \in DownPoints :
        \E this \in Dispatched :
            Handle("startSelection", startSelection(this, e))

MouseMove ==
    /\ MainUsable
    /\ isSelecting /\ selectionStart # None
    /\ \E e \in DownPoints :
        \E this \in Dispatched :
            Handle("updateSelection", updateSelection(this, e))

\* The pointer is released at e over an image element measuring img.
MouseUpAt(e, img) ==
    /\ MainUsable
    /\ isSelecting /\ selectionStart # None
    /\ \E this \in Dispatched :
           Handle("endSelection", endSelection(this, e, img))

MouseUp == \E e \in UpPoints, img \in Images : MouseUpAt(e, img)

IdentifyResponse(identifications) ==
    \E request \in Outstanding("identify_species") :
        \E result \in IdentifyResults(identifications) :
            \E this \in Resumed(request) :
                Handle("identifySpeciesResponse",
                       identifySpeciesResponse(this, result))

ClickAddField ==
    /\ MainUsable
    /\ \E this \in Dispatched :
           Handle("showAddFieldModal", showAddFieldModal(this))

\* The user types a field name into the add-field dialog.
TypeFieldName ==
    /\ addFieldModalShown
    /\ \E text \in FieldNameTexts :
        \E this \in Dispatched :
            Handle("fieldName", [this EXCEPT !.fieldName = text])

\* The user types a value into the add-field dialog.
TypeFieldValue ==
    /\ addFieldModalShown
    /\ \E text \in FieldValueTexts :
        \E this \in Dispatched :
            Handle("fieldValue", [this EXCEPT !.fieldValue = text])

ClickAddFieldConfirm ==
    /\ addFieldModalShown
    /\ \E this \in Dispatched :
           Handle("addCustomField", addCustomField(this))

\* The cancel button of the add-field dialog, or a click on the overlay
\* outside the dialog.
ClickAddFieldCancel ==
    /\ addFieldModalShown
    /\ \E this \in Dispatched :
           Handle("hideAddFieldModal", hideAddFieldModal(this))

\* The delete button of the i-th field is clicked.
DeleteFieldAt(i) ==
    /\ MainUsable
    /\ form[i].deletable
    /\ \E this \in Dispatched : Handle("deleteField", deleteField(this, i))

ClickDeleteField == \E i \in 1..Len(form) : DeleteFieldAt(i)

\* The user types into an input of the form that is not readonly.
TypeMetadataInput ==
    /\ MainUsable
    /\ \E i \in 1..Len(form) :
        /\ ~form[i].readonly
        /\ form[i].name \in TypedFields
        /\ \E text \in FieldValueTexts :
            \E this \in Dispatched :
                Handle("input", [this EXCEPT !.form[i].value = text])

ClickSave ==
    /\ MainUsable
    /\ Cardinality(Outstanding("save_metadata")) < MaxSaves
    /\ \E this \in Dispatched : Handle("saveMetadata", saveMetadata(this))

\* The server's answer result to the save request is handled.
SaveAnswer(request, result) ==
    \E this \in Resumed(request) :
        Handle("saveMetadataResponse", saveMetadataResponse(this, result))

SaveResponse ==
    \E request \in Outstanding("save_metadata") :
        \E result \in SaveResults : SaveAnswer(request, result)

Next ==
    \/ ClickBrowseFolders
    \/ BrowseResponse
    \/ ClickFolderItem
    \/ DblClickFolderItem
    \/ ClickSelectFolder
    \/ ClickCancelBrowser
    \/ ClickOutsideBrowser
    \/ ClickLoadFolder
    \/ LoadFolderResponse
    \/ ClickFirst
    \/ ClickPrev
    \/ ClickNext
    \/ ClickLast
    \/ KeyDown
    \/ ImageResponse
    \/ FooterResponse({FooterNothing})
    \/ ClickIdentify
    \/ ClickCancelSelection
    \/ MouseDown
    \/ MouseMove
    \/ MouseUp
    \/ IdentifyResponse({IdUnknown})
    \/ ClickAddField
    \/ TypeFieldName
    \/ TypeFieldValue
    \/ ClickAddFieldConfirm
    \/ ClickAddFieldCancel
    \/ ClickDeleteField
    \/ TypeMetadataInput
    \/ ClickSave
    \/ SaveResponse

\* The whole program, from the constructor on.
Spec == Init /\ [][Next]_vars

(***************************************************************************)
(* The session: image navigation and region selection once a folder has    *)
(* been chosen.                                                            *)
(*                                                                         *)
(* The folder browser and the session share nothing but the committed path *)
(* (selectedPath) and the load button: no handler of the browser reads or  *)
(* writes a field of the session, and the session reads no field of the    *)
(* browser.  The claims about the session are therefore checked from the   *)
(* state in which the user has opened the browser, picked the folder /a    *)
(* and confirmed, under the handlers of the session; before that state the *)
(* session is as the constructor left it.                                  *)
(***************************************************************************)
FolderChosen ==
    LET opened    == showFolderBrowser(Constructed(TRUE))
        listed    == browseToResponse(
                         Answered(opened, Request("browse_folders", None)),
                         Response("success", ServerListing(None)))
        picked    == folderItemClick(listed, 1)
    IN  selectCurrentFolder(picked)

SessionInit ==
    /\ Is(FolderChosen)
    /\ lastOp = "selectCurrentFolder"
    /\ debugEntries = <<>>

SessionNext ==
    \/ ClickLoadFolder
    \/ LoadFolderResponse
    \/ ClickFirst
    \/ ClickPrev
    \/ ClickNext
    \/ ClickLast
    \/ KeyDown
    \/ ImageResponse
    \/ FooterResponse({FooterNothing})
    \/ ClickIdentify
    \/ ClickCancelSelection
    \/ MouseDown
    \/ MouseMove
    \/ MouseUp
    \/ IdentifyResponse({IdUnknown})

SessionSpec == SessionInit /\ [][SessionNext]_vars

\* The session, and the page as constructed: there the load button can be
\* clicked while no folder has been chosen.
LoadSpec == (Init \/ SessionInit) /\ [][SessionNext]_vars

(***************************************************************************)
(* The trigger of the footer extraction on its own: a folder is loaded and *)
(* the server answers the image request with metadata that has or lacks    *)
(* the three keys, with or without values.                                 *)
(***************************************************************************)
TriggerNext ==
    \/ ClickLoadFolder
    \/ LoadFolderResponse
    \/ AnyImageResponse
    \/ FooterResponse({FooterNothing})

TriggerSpec == SessionInit /\ [][TriggerNext]_vars

(***************************************************************************)
(* Navigation with slow answers: the images of a loaded folder are         *)
(* navigated while image and footer requests are outstanding, and the      *)
(* footer of an image may give a temperature.                              *)
(***************************************************************************)
NavigationNext ==
    \/ ClickLoadFolder
    \/ LoadFolderResponse
    \/ ClickFirst
    \/ ClickPrev
    \/ ClickNext
    \/ ClickLast
    \/ ImageResponse
    \/ FooterResponse({FooterNothing, FooterTemperature})

NavigationSpec == SessionInit /\ [][NavigationNext]_vars

(***************************************************************************)
(* The metadata editor on its own: a folder of one image has been loaded,  *)
(* its image shown and its metadata rendered, and the footer extraction    *)
(* requested; the form is filled in by the extraction, edited and saved.   *)
(***************************************************************************)
OneImageShown ==
    LET asked  == loadFolder(FolderChosen)
        loaded == loadFolderResponse(
                      Answered(asked, Request("load_folder", asked.selectedPath)),
                      Response("success", [count |-> 1]))
    IN  loadCurrentImageResponse(
            Answered(loaded, Request("image", 0)),
            Response("success", [metadata |-> ServerMetadata(0)]))

FormInit ==
    /\ Is(OneImageShown)
    /\ lastOp = "loadCurrentImageResponse"
    /\ debugEntries = <<>>

FormNext ==
    \/ FooterResponse({FooterNothing, FooterTemperature})
    \/ ClickAddField
    \/ TypeFieldName
    \/ TypeFieldValue
    \/ ClickAddFieldConfirm
    \/ ClickAddFieldCancel
    \/ ClickDeleteField
    \/ TypeMetadataInput
    \/ ClickSave
    \/ SaveResponse

FormSpec == FormInit /\ [][FormNext]_vars

(***************************************************************************)
(* The folder browser on its own, from the constructor on.                 *)
(***************************************************************************)
BrowserNext ==
    \/ ClickBrowseFolders
    \/ BrowseResponse
    \/ ClickFolderItem
    \/ DblClickFolderItem
    \/ ClickSelectFolder
    \/ ClickCancelBrowser
    \/ ClickOutsideBrowser

BrowserSpec == Init /\ [][BrowserNext]_vars

(***************************************************************************)
(* displayMetadata on its own: currentMetadata is any mapping of at most   *)
(* MaxKeys keys, as at line 347 of loadCurrentImage, and displayMetadata   *)
(* renders it.                                                             *)
(***************************************************************************)
\* Keys of a mapping: names of the denylist as they are and with capitals,
\* two common names, a custom name.
MetadataKeys == {"filename", "Filename", "Size_MB", "Species", "Notes", "Trail"}
MetadataValues == {EmptyStr, Word("x")}

\* The mappings of n keys (keys of an object are distinct).
RECURSIVE Mappings(_)
Mappings(n) ==
    IF n = 0 THEN {<<>>}
    ELSE Mappings(n - 1) \cup
         { Append(md, [name |-> k, value |-> v]) :
             md \in {m \in Mappings(n - 1) : Len(m) = n - 1},
             k \in MetadataKeys, v \in MetadataValues }

RenderInit ==
    /\ \E md \in {m \in Mappings(MaxKeys) :
                    \A i, j \in 1..Len(m) : m[i].name = m[j].name => i = j} :
           Is([Constructed(TRUE) EXCEPT !.currentMetadata = md])
    /\ lastOp = "loadCurrentImage"
    /\ debugEntries = <<>>

DisplayMetadata ==
    \E this \in Dispatched : Handle("displayMetadata", displayMetadata(this))

RenderSpec == RenderInit /\ [][DisplayMetadata]_vars

(***************************************************************************)
(* The debug log on its own: addDebugOutput called with messages of        *)
(* various lengths, one character per token.                               *)
(***************************************************************************)
\* A message of n characters.
Text(n) == [i \in 1..n |-> << "a", "b", "c", "d", "e", "f", "g" >>[(i % 7) + 1]]

\* Messages: empty; short; one whose entry fills the buffer exactly, and one
\* character more; one longer than the buffer.
DebugMessages ==
    LET frame == Len(formattedMessage(EmptyStr))
    IN  {Text(n) : n \in {0, 100, DebugLimit - frame, DebugLimit - frame + 1, DebugLimit + 100}}

AddDebugOutput ==
    /\ Len(debugEntries) < MaxEntries
    /\ \E message \in DebugMessages :
        \E this \in Dispatched :
            \E after \in {addDebugOutput(this, message)} :
                /\ Becomes(after)
                /\ debugBuffer' = after.debugBuffer
                /\ debugEntries' = Append(debugEntries, formattedMessage(message))
                /\ lastOp' = "addDebugOutput"

DebugSpec == Init /\ [][AddDebugOutput]_vars

\* The session under the assumption that every identification request is
\* answered: the continuation of identifySpecies runs once the response is in.
SessionLiveSpec == SessionSpec /\ WF_vars(IdentifyResponse({IdUnknown}))

(***************************************************************************)
(* Properties of the image navigator.                                      *)
(***************************************************************************)
\* C1: in every reachable state totalImages > 0 implies
\* 0 <= currentIndex < totalImages; and right after resetInterface (a click
\* on the load button that got past the no-folder check) or after a
\* successful load_folder response (count > 0: no alert; count = 0: the
\* no-images alert) currentIndex = 0.
C1_IndexInRange ==
    /\ totalImages > 0 => (0 <= currentIndex /\ currentIndex < totalImages)
    /\ (lastOp = "loadFolder" /\ alerts = <<>>) => currentIndex = 0
    /\ ( /\ lastOp = "loadFolderResponse"
         /\ alerts \in {<<>>, <<"No supported image files found">>} )
       => currentIndex = 0

\* A second folder load is answered with one image after the second image of
\* the first load had been shown.
C1_Witness ==
    /\ lastOp = "loadFolderResponse"
    /\ alerts = <<>>
    /\ totalImages = 1
    /\ currentIndex = 0
    /\ imageSrc = Some(1)

\* C2: a handler that calls navigateToImage(i) with i < 0 or i >= totalImages
\* (every i when totalImages = 0) issues no request and leaves currentIndex,
\* totalImages, currentMetadata and the form as they are.
C2_OutOfRangeNavigationIsNoOp ==
    [][ \A k \in 1..Len(navigated') :
            (navigated'[k] < 0 \/ navigated'[k] >= totalImages)
                => /\ pending' = pending
                   /\ UNCHANGED << currentIndex, totalImages, currentMetadata, form >>
      ]_vars

\* navigateToImage has been called while no folder is loaded.
C2_Witness ==
    /\ navigated # <<>>
    /\ totalImages = 0

\* C3: when a load_folder response with success and count = 0 is handled,
\* whatever was loaded before, the main content view is hidden and the
\* welcome view shown afterwards, an alert fires and no image request is
\* issued.
C3_EmptyFolderShowsWelcomeView ==
    [][ \A request \in Outstanding("load_folder") :
            LoadFolderAnswer(request, Response("success", [count |-> 0]))
                => /\ ~mainContentShown'
                   /\ welcomeMessageShown'
                   /\ alerts' # <<>>
                   /\ pending' = pending (-) SetToBag({request})
      ]_vars

\* C4: when a load_folder response with success and count > 0 is handled,
\* totalImages = count, currentIndex = 0, currentMetadata is empty, the main
\* content view is shown, and the one request the handler issues is the
\* image request for index 0.
C4_LoadedFolderShowsFirstImage ==
    [][ \A request \in Outstanding("load_folder") :
            \A count \in 1..MaxImages :
                LoadFolderAnswer(request, Response("success", [count |-> count]))
                    => /\ totalImages' = count
                       /\ currentIndex' = 0
                       /\ currentMetadata' = <<>>
                       /\ mainContentShown'
                       /\ pending' = (pending (-) SetToBag({request}))
                                         (+) SetToBag({Request("image", 0)})
      ]_vars

\* A folder of MaxImages images has just been reported while the last image
\* of an earlier load was the current one.
C4_Witness ==
    /\ lastOp = "loadFolderResponse"
    /\ alerts = <<>>
    /\ totalImages = MaxImages
    /\ imageSrc = Some(1)
    /\ BagIn(Request("image", 0), pending)

(***************************************************************************)
(* Properties of the keyboard and of the region selector.                  *)
(***************************************************************************)
\* The enabled/disabled pattern updateNavigationButtons derives from
\* currentIndex and totalImages, in the next state.
NavigationPattern ==
    /\ firstBtnDisabled' = (currentIndex' = 0)
    /\ prevBtnDisabled'  = (currentIndex' = 0)
    /\ nextBtnDisabled'  = (currentIndex' = totalImages' - 1)
    /\ lastBtnDisabled'  = (currentIndex' = totalImages' - 1)

\* C5: whenever isSelecting = true, pressing Escape returns the selector to
\* Idle: isSelecting is false, the selection box hidden, currentSelection
\* cleared and the navigation buttons recomputed.
C5_EscapeCancelsSelection ==
    [][ (isSelecting /\ KeyPress("Escape"))
            => /\ ~isSelecting'
               /\ ~selectionBoxShown'
               /\ currentSelection' = None
               /\ NavigationPattern
      ]_vars

\* C6: a press of ArrowLeft, ArrowRight, Home or End issues no request and
\* leaves currentIndex unchanged whenever totalImages = 0 or isSelecting;
\* otherwise it is navigateToImage(currentIndex - 1), (currentIndex + 1),
\* (0), (totalImages - 1) respectively.
C6_NavigationKeys ==
    [][ \A key \in {"ArrowLeft", "ArrowRight", "Home", "End"} :
            KeyPress(key)
                => IF totalImages = 0 \/ isSelecting
                   THEN pending' = pending /\ currentIndex' = currentIndex
                   ELSE Becomes(navigateToImage(This,
                            CASE key = "ArrowLeft"  -> currentIndex - 1
                              [] key = "ArrowRight" -> currentIndex + 1
                              [] key = "Home"       -> 0
                              [] key = "End"        -> totalImages - 1))
      ]_vars

\* A key has been pressed while a folder was loaded and identify mode active.
C6_Witness ==
    /\ lastOp = "keydown"
    /\ isSelecting
    /\ totalImages > 0
    /\ currentIndex < totalImages - 1

\* C7: in every reachable state with isSelecting = true the four navigation
\* buttons are disabled, also after an image response that was requested
\* before identify mode was activated.
C7_NavigationDisabledWhileSelecting ==
    isSelecting =>
        firstBtnDisabled /\ prevBtnDisabled /\ nextBtnDisabled /\ lastBtnDisabled

\* C8: activating identify mode and activating it again with no pointer
\* event in between leaves the state that activating and cancelling leaves:
\* isSelecting = false, currentSelection absent, no identification request
\* issued, the navigation buttons in the pattern of currentIndex and
\* totalImages.
C8_ToggleTwiceIsCancel ==
    [][ (lastOp = "toggleIdentifyMode" /\ isSelecting /\ ClickIdentify)
            => /\ Becomes(cancelIdentifyMode(This))
               /\ ~isSelecting'
               /\ currentSelection' = None
               /\ pending' = pending
               /\ NavigationPattern
      ]_vars

\* Identify mode has been toggled off on the first of two loaded images.
C8_Witness ==
    /\ lastOp = "toggleIdentifyMode"
    /\ ~isSelecting
    /\ totalImages = 2
    /\ firstBtnDisabled /\ ~nextBtnDisabled

\* C9: on pointer-up while dragging, a drag narrower or lower than 20
\* display pixels issues no request, leaves currentSelection absent and the
\* selector Idle; a drag of at least 20 by 20 (exactly 20 included) issues
\* exactly one identification request, for currentIndex.
C9_MinimumSelection ==
    [][ \A e \in UpPoints, img \in Images :
            MouseUpAt(e, img)
                => LET width  == Abs(e.x - Get(selectionStart).x)
                       height == Abs(e.y - Get(selectionStart).y)
                   IN  IF width < 20 \/ height < 20
                       THEN /\ pending' = pending
                            /\ currentSelection' = None
                            /\ ~isSelecting'
                       ELSE \E r \in BagToSet(pending') :
                               /\ r.api = "identify_species"
                               /\ r.body.image_index = currentIndex
                               /\ pending' = pending (+) SetToBag({r})
      ]_vars

\* A drag of exactly 20 by 20 display pixels has been released.
C9_Witness ==
    /\ lastOp = "endSelection"
    /\ currentSelection # None
    /\ Get(currentSelection).width = 20 * 2
    /\ Get(currentSelection).height = 20 * 3

\* The selector is Idle and the identify toggle can be used.
Idle == ~isSelecting /\ currentSelection = None /\ ~identifyBtnDisabled

\* C10: once the outcome of an identification request (success, failure or
\* exception) is handled, the identify toggle is enabled, isSelecting is
\* false and currentSelection absent; and, every request being answered,
\* every accepted drag is eventually followed by Idle.
C10_IdentificationReturnsToIdle ==
    /\ [](lastOp = "identifySpeciesResponse" => Idle)
    /\ (lastOp = "endSelection" /\ currentSelection # None) ~> Idle

\* An identification request has ended with an exception.
C10_Witness ==
    /\ lastOp = "identifySpeciesResponse"
    /\ alerts = <<"Error during identification">>

(***************************************************************************)
(* Properties of the debug log.                                            *)
(***************************************************************************)
\* The concatenation of a sequence of strings.
RECURSIVE Concat(_)
Concat(strs) == IF strs = <<>> THEN <<>> ELSE Head(strs) \o Concat(Tail(strs))

\* C16: after any sequence of appends the debug buffer is at most 500
\* characters long and is the trailing min(500, L) characters of the
\* concatenation, of length L, of all formatted entries appended so far.
C16_DebugBufferKeepsTail ==
    LET all  == Concat(debugEntries)
        L    == Len(all)
        kept == IF L < 500 THEN L ELSE 500
    IN  /\ Len(debugBuffer) <= 500
        /\ Len(debugBuffer) = kept
        /\ \A i \in 1..kept : debugBuffer[i] = all[L - kept + i]

\* An entry has been appended to a buffer that was full to the last
\* character, so that exactly the oldest entry's characters were dropped.
C16_Witness ==
    /\ Len(debugEntries) = 2
    /\ Len(debugEntries[1]) = 500
    /\ Len(Concat(debugEntries)) > 500
    /\ Len(debugBuffer) = 500

\* The form has a field of this name.
InForm(name) == \E i \in 1..Len(form) : form[i].name = name

\* C11: confirming the add-field dialog with a name that is blank after
\* trimming, or that a field of the form already has, alerts and leaves
\* currentMetadata and the form unchanged; with a new name it appends exactly
\* one field that is not readonly and can be deleted, and closes the dialog.
C11_AddFieldRejectsBlankAndDuplicateNames ==
    [][ ClickAddFieldConfirm =>
            LET name == trim(fieldName)
            IN  IF name = EmptyStr \/ InForm(AsName(name))
                THEN /\ alerts' # <<>>
                     /\ currentMetadata' = currentMetadata
                     /\ form' = form
                ELSE /\ form' = Append(form, [ name      |-> AsName(name),
                                               value     |-> trim(fieldValue),
                                               readonly  |-> FALSE,
                                               deletable |-> TRUE ])
                     /\ ~addFieldModalShown'
      ]_vars

\* C12: in every reachable state no two fields of the form have the same
\* name.
C12_FieldNamesDistinct ==
    \A i, j \in 1..Len(form) : form[i].name = form[j].name => i = j

\* C13: the metadata of every save request has no key that, lower-cased, is
\* one of filename, size_mb, dimensions.
C13_SaveOmitsReadonlyNames ==
    \A request \in Outstanding("save_metadata") :
        \A i \in 1..Len(request.body.metadata) :
            toLowerCase(request.body.metadata[i].name) \notin readonlyFields

\* The fields of the form that saveMetadata submits: those that are not
\* readonly and whose value is not empty after trimming.
Submitted(i) == ~form[i].readonly /\ trim(form[i].value) # EmptyStr

\* C14: a save request carries index = currentIndex and a metadata mapping
\* whose keys are the names of the fields that are not readonly and have a
\* value that is not empty after trimming, each mapped to that trimmed value;
\* a field whose trimmed value is empty is absent from it; the request and
\* its answer, success or failure, leave the form unchanged.
C14_SavePayload ==
    [][ /\ ClickSave =>
            /\ form' = form
            /\ \E request \in {r \in BagToSet(pending') : r.api = "save_metadata"} :
                LET metadata == request.body.metadata
                IN  /\ request.body.index = currentIndex
                    /\ \A k \in 1..Len(metadata) :
                           \E i \in 1..Len(form) :
                               Submitted(i) /\ form[i].name = metadata[k].name
                    /\ \A i \in 1..Len(form) :
                           IF Submitted(i)
                           THEN /\ hasOwnProperty(metadata, form[i].name)
                                /\ Prop(metadata, form[i].name) = trim(form[i].value)
                           ELSE form[i].readonly \/ ~hasOwnProperty(metadata, form[i].name)
        /\ SaveResponse => form' = form
      ]_vars

\* C15: the form displayMetadata renders from a mapping M has as field names
\* the keys of M and the ten common names, each once; the field of a key k
\* carries M[k] and is readonly exactly when k in lower case is filename,
\* size_mb or dimensions; a common name that M lacks has an empty field that
\* is not readonly; no field of a common name has a delete button, and every
\* field that is neither readonly nor of a common name has one.
C15_RenderedFields ==
    lastOp = "displayMetadata" =>
        LET M == currentMetadata
        IN  /\ {form[i].name : i \in 1..Len(form)}
                 = {M[k].name : k \in 1..Len(M)}
                       \cup {commonFields[c] : c \in 1..Len(commonFields)}
            /\ \A i, j \in 1..Len(form) : form[i].name = form[j].name => i = j
            /\ \A i \in 1..Len(form) :
                /\ IF hasOwnProperty(M, form[i].name)
                   THEN /\ form[i].value = Prop(M, form[i].name)
                        /\ form[i].readonly
                               <=> toLowerCase(form[i].name) \in readonlyFields
                   ELSE form[i].value = EmptyStr /\ ~form[i].readonly
                /\ isCommonField(form[i].name) => ~form[i].deletable
                /\ (~form[i].readonly /\ ~isCommonField(form[i].name))
                       => form[i].deletable

\* A mapping with a name of the denylist in capitals and a common name has
\* been rendered: eleven fields, the first readonly.
C15_Witness ==
    /\ lastOp = "displayMetadata"
    /\ Len(currentMetadata) = 2
    /\ currentMetadata[1].name = "Filename"
    /\ currentMetadata[2].name = "Species"
    /\ Len(form) = 11
    /\ form[1].readonly

\* C17: the confirm button of the folder browser is enabled only while a
\* pending selection (selectedFolderPath) exists; confirming copies the
\* pending selection to the committed path, enables the load button and
\* closes the modal; and whenever the modal is closed, the pending selection
\* is absent and the confirm button is disabled.
C17_FolderBrowserSelection ==
    /\ [](~selectFolderBtnDisabled => selectedFolderPath # None)
    /\ [](~folderBrowserShown =>
              selectedFolderPath = None /\ selectFolderBtnDisabled)
    /\ [][ ClickSelectFolder =>
               /\ selectedPath' = Get(selectedFolderPath)
               /\ ~loadFolderBtnDisabled'
               /\ ~folderBrowserShown'
         ]_vars

\* A folder has been confirmed in the browser: the modal is closed, the
\* committed path is that folder.
C17_Witness ==
    /\ lastOp = "selectCurrentFolder"
    /\ ~folderBrowserShown
    /\ selectedPath = "/a"
    /\ ~loadFolderBtnDisabled

\* C18: loadFolder with no committed path alerts, issues no request and
\* changes no session state; with a committed path, when the load_folder
\* request is issued, currentIndex = 0, totalImages = 0, currentMetadata and
\* the form are empty, no selection is going on and all four navigation
\* buttons are disabled.
C18_LoadFolderResets ==
    [][ ClickLoadFolder =>
            IF selectedPath \in {"", "No folder selected"}
            THEN /\ alerts' # <<>>
                 /\ pending' = pending
                 /\ UNCHANGED << currentIndex, totalImages, currentMetadata, form,
                                 imageSrc, isSelecting, currentSelection,
                                 selectionBoxShown, selectedPath, mainContentShown,
                                 firstBtnDisabled, prevBtnDisabled,
                                 nextBtnDisabled, lastBtnDisabled >>
            ELSE /\ pending' = pending (+) SetToBag({Request("load_folder", selectedPath)})
                 /\ currentIndex' = 0
                 /\ totalImages' = 0
                 /\ currentMetadata' = <<>>
                 /\ form' = <<>>
                 /\ ~isSelecting' /\ currentSelection' = None /\ ~selectionBoxShown'
                 /\ firstBtnDisabled' /\ prevBtnDisabled'
                 /\ nextBtnDisabled' /\ lastBtnDisabled'
      ]_vars

\* The folder is loaded again after a session in which an image was shown:
\* the request is out and the session state is reset.
C18_Witness ==
    /\ lastOp = "loadFolder"
    /\ mainContentShown
    /\ Outstanding("load_folder") # {}
    /\ totalImages = 0
    /\ form = <<>>

\* The alerts of the error branches: a response that reports an error, and
\* the catch blocks.
ErrorAlerts ==
    { "Error browsing folders", "Error", "Error loading folder",
      "Error loading image", "Identification failed",
      "Error during identification", "Failed to save metadata",
      "Error saving metadata" }

\* C19: after an error of a request, once no request is outstanding, no
\* selection is going on, the identify button is enabled and, when
\* totalImages > 1, at least one navigation button is enabled.
C19_StableAfterError ==
    (/\ \E i \in 1..Len(alerts) : alerts[i] \in ErrorAlerts
     /\ pending = EmptyBag)
        => /\ ~isSelecting
           /\ ~identifyBtnDisabled
           /\ totalImages > 1 =>
                  ~(/\ firstBtnDisabled /\ prevBtnDisabled
                    /\ nextBtnDisabled /\ lastBtnDisabled)

\* The value the footer result has for a field name, when it has one.
FooterValue(result, name) ==
    IF result.outcome = "success"
    THEN Prop(result.payload.footer_metadata, name)
    ELSE EmptyStr

\* C20: the silent footer extraction, whatever its outcome (fields
\* extracted, nothing extracted, failure reported, exception), raises no
\* alert and leaves currentMetadata, currentIndex and totalImages as they
\* are; it appends to the debug buffer and, on success, overwrites the values
\* of the inputs of Temperature_C, Temperature_F and Camera_ID that the
\* result has, and changes nothing else.
C20_SilentFooterExtraction ==
    [][ \A request \in Outstanding("extract_footer") :
            \A result \in FooterResults({FooterNothing, FooterTemperature}) :
                FooterAnswer(request, result) =>
                    /\ alerts' = <<>>
                    /\ UNCHANGED << currentMetadata, currentIndex, totalImages >>
                    /\ logged' # <<>>
                    /\ Becomes([Answered(This, request)
                                   EXCEPT !.form = form', !.logged = logged'])
                    /\ Len(form') = Len(form)
                    /\ \A i \in 1..Len(form) :
                        \/ form'[i] = form[i]
                        \/ /\ form[i].name \in {"Temperature_C", "Temperature_F", "Camera_ID"}
                           /\ Truthy(FooterValue(result, form[i].name))
                           /\ form'[i] = [form[i] EXCEPT
                                             !.value = FooterValue(result, form[i].name)]
      ]_vars

\* The footer of the image gave a temperature, and the form shows it.
C20_Witness ==
    /\ lastOp = "extractFooterDataSilentResponse"
    /\ logged = << Word("DateTime"), Word("Extracted") >>
    /\ form[querySelector(form, "Temperature_C")].value = Word("25")
    /\ currentMetadata = ServerMetadata(0)

\* The three keys the footer extraction supplies.
FooterKeys == {"Temperature_C", "Temperature_F", "Camera_ID"}

\* The step is the handling of a successful image load: the continuation of
\* loadCurrentImage has run without an alert.
ImageLoaded == lastOp' = "loadCurrentImageResponse" /\ alerts' = <<>>

\* The step issues a footer request.
FooterRequested ==
    \E index \in 0..MaxImages :
        CopiesIn(Request("extract_footer", index), pending')
            > CopiesIn(Request("extract_footer", index), pending)

\* C21: after a successful image load a footer request is issued exactly
\* when at least one of the keys Temperature_C, Temperature_F, Camera_ID is
\* absent from the metadata the server sent; with all three keys present,
\* whatever their values, no request is issued.
C21_FooterRequestedIffKeyAbsent ==
    [][ ImageLoaded =>
            (FooterRequested <=>
                 \E key \in FooterKeys : ~hasOwnProperty(currentMetadata', key))
      ]_vars

\* C21, amended: after a successful image load a footer request is issued
\* exactly when a folder with images is loaded (totalImages is not 0) and at
\* least one of the three keys is absent from the metadata or has an empty
\* value.
C21_FooterRequestedIffValueMissing ==
    [][ ImageLoaded =>
            (FooterRequested <=>
                 /\ totalImages # 0
                 /\ \E key \in FooterKeys :
                        \/ ~hasOwnProperty(currentMetadata', key)
                        \/ Prop(currentMetadata', key) = EmptyStr)
      ]_vars

\* The metadata of the image has all three keys, one with an empty value,
\* and the footer has been requested.
C21_Witness ==
    /\ lastOp = "loadCurrentImageResponse"
    /\ \A key \in FooterKeys : hasOwnProperty(currentMetadata, key)
    /\ Prop(currentMetadata, "Camera_ID") = EmptyStr
    /\ Outstanding("extract_footer") # {}

\* The value of the first input of the form with this name.
InputValue(f, name) == f[querySelector(f, name)].value

\* C22: the answer to the footer request of image N can be handled after
\* the user has navigated to image N+1 and the form of that image has been
\* rendered, and it then overwrites an input of that form: a footer answer
\* asked for another image than the one shown writes its temperature into
\* the form that is shown.
C22_StaleFooterOverwritesForm ==
    [][ \A request \in Outstanding("extract_footer") :
            (/\ request.body # currentIndex
             /\ imageSrc = Some(currentIndex)
             /\ FooterAnswer(request,
                    Response("success", [footer_metadata |-> FooterTemperature])))
                => /\ InputValue(form', "Temperature_C") = Word("25")
                   /\ currentIndex' = currentIndex
      ]_vars

\* Image 1, whose metadata is complete, is shown with its form rendered, and
\* the footer answer asked for image 0 has put its temperature into that form.
C22_Witness ==
    /\ lastOp = "extractFooterDataSilentResponse"
    /\ currentIndex = 1
    /\ imageSrc = Some(1)
    /\ currentMetadata = ServerMetadata(1)
    /\ Prop(currentMetadata, "Temperature_C") = Word("21")
    /\ InputValue(form, "Temperature_C") = Word("25")

\* C23: whenever no image request is outstanding and the last image load
\* succeeded, the image shown, currentMetadata and the form are those of the
\* image at currentIndex, in whatever order the answers to overlapping
\* navigations arrive; so the index and the metadata of a save request
\* belong to the same image.
C23_ShownImageIsCurrent ==
    (/\ lastOp = "loadCurrentImageResponse"
     /\ alerts = <<>>
     /\ Outstanding("image") = {})
        => /\ imageSrc = Some(currentIndex)
           /\ currentMetadata = ServerMetadata(currentIndex)
           /\ \A k \in 1..Len(currentMetadata) :
                  InputValue(form, currentMetadata[k].name) = currentMetadata[k].value

\* Identify mode is active and no pointer-down has been received since it
\* was activated: startSelection shows the selection box, and nothing but
\* cancelIdentifyMode, which ends the activation, hides it again.
NoPointerDownYet == isSelecting /\ ~selectionBoxShown

\* C24: while identify mode is active and no pointer-down has been received
\* since it was activated, a pointer-up or a pointer-move issues no request
\* and changes no state, even when the anchor of an earlier drag is still
\* recorded.
C24_PointerUpNeedsPointerDown ==
    [][ (NoPointerDownYet /\ (MouseUp \/ MouseMove))
            => pending' = pending /\ Becomes(This)
      ]_vars

\* C25: whenever an identification request is outstanding the identify
\* button is disabled, and at most one identification request is outstanding
\* at a time.
C25_OneIdentificationAtATime ==
    /\ Outstanding("identify_species") # {} => identifyBtnDisabled
    /\ \A request \in Outstanding("identify_species") :
           /\ CopiesIn(request, pending) = 1
           /\ Outstanding("identify_species") = {request}

\* C26: whenever a pending selection exists in the folder browser
\* (selectedFolderPath set, confirm enabled), it is the path of a directory
\* entry of the listing that is displayed, and that entry is highlighted.
C26_SelectionIsShown ==
    (selectedFolderPath # None /\ ~selectFolderBtnDisabled)
        => \E i \in 1..Len(folderTree) :
               /\ folderTree[i].is_dir
               /\ folderTree[i].path = Get(selectedFolderPath)
               /\ folderTree[i].selected

====
